---- MODULE Spec2Model ----
(***************************************************************************)
(* Model of src/examples/offboard/offboard_commander_node.cpp: the         *)
(* OffboardCommander node.  Three callbacks are registered with the node   *)
(* and run by the executor of rclcpp::spin (main): the 33 ms wall timer,   *)
(* the Timesync subscription and the PoseStamped subscription.             *)
(*                                                                         *)
(* Numbers.  Floating point values are fixed point integers counting       *)
(* thousandths (One == 1000).  A float64 may be any such integer; a        *)
(* float32 is a multiple of F32Grain, and Float32Of is the rounding that   *)
(* an assignment of a double to a float field performs.                    *)
(***************************************************************************)
EXTENDS Integers, Sequences, FiniteSets

(* ------------------------------ bounds -------------------------------- *)

\* Timer ticks the model lets the wall timer start.
MaxTicks == 13

\* Timestamps are drawn from 0..MaxTime.
MaxTime == 2

\* Calls of arm() and disarm() the model lets a caller of the class make.
MaxCalls == 3

(* ----------------------------- numbers -------------------------------- *)

\* Fixed point unit: the integer that stands for 1.0.
One == 1000

\* Spacing of the float32 values, in the unit of One.
F32Grain == 8

Abs(v) == IF v < 0 THEN -v ELSE v

\* Conversion double -> float: the nearest float32, ties to the even one.
Float32Of(v) ==
    LET a == Abs(v)
        q == a \div F32Grain
        r == a % F32Grain
        m == IF 2 * r < F32Grain THEN q
             ELSE IF 2 * r > F32Grain THEN q + 1
             ELSE IF q % 2 = 0 THEN q ELSE q + 1
    IN  IF v < 0 THEN -(m * F32Grain) ELSE m * F32Grain

\* The literal -3.14 (a double) written to the yaw field.
YawLiteral == -3140

\* VehicleCommand::VEHICLE_CMD_DO_SET_MODE
VEHICLE_CMD_DO_SET_MODE == 176

\* VehicleCommand::VEHICLE_CMD_COMPONENT_ARM_DISARM
VEHICLE_CMD_COMPONENT_ARM_DISARM == 400

(* ------------------------------ inputs -------------------------------- *)

\* Timesync.timestamp values.
TimeVals == 0 .. MaxTime

\* PoseStamped positions (float64).  The second and third are not float32
\* values; no two of them agree in x or in z.
Poses ==
    { [x |-> 2 * One,  y |-> -(3 * One), z |-> 5 * One],
      [x |-> One + 3,  y |-> 0,          z |-> -(One + 3)],
      [x |-> -(One + 4), y |-> One + 1,  z |-> 4 ] }

NoPose == [x |-> 0, y |-> 0, z |-> 0, none |-> TRUE]

(* ------------------------------- state -------------------------------- *)

VARIABLES
    timestamp_,                    \* std::atomic<uint64_t> timestamp_
    offboard_setpoint_counter_,    \* uint64_t offboard_setpoint_counter_
    next_trajectory_setpoint_msg,  \* the stored TrajectorySetpoint
    pc,                            \* position of the executor's thread
    msg,                           \* local msg of publish_trajectory_setpoint
    tick_out,                      \* messages published by the current or last tick
    cmds,                          \* every VehicleCommand published so far
    n_ocm,                         \* OffboardControlMode messages published so far
    n_traj,                        \* TrajectorySetpoint messages published so far
    ticks,                         \* timer callbacks completed
    synced,                        \* a Timesync message has been processed
    last_sync,                     \* timestamp of the last Timesync processed
    last_pose,                     \* the last PoseStamped processed, or NoPose
    prev_setpoint                  \* stored setpoint before the last pose update

vars == << timestamp_, offboard_setpoint_counter_, next_trajectory_setpoint_msg,
           pc, msg, tick_out, cmds, n_ocm, n_traj, ticks, synced, last_sync,
           last_pose, prev_setpoint >>

(* ------------------------------ messages ------------------------------ *)

\* TrajectorySetpoint msg{} : value initialised.
ZeroTrajectorySetpoint ==
    [type |-> "TrajectorySetpoint", timestamp |-> 0, x |-> 0, y |-> 0, z |-> 0, yaw |-> 0]

\* publish_vehicle_command(command, param1, param2): the message it builds.
VehicleCommandMsg(command, param1, param2) ==
    [type |-> "VehicleCommand",
     timestamp |-> timestamp_,
     param1 |-> param1,
     param2 |-> param2,
     command |-> command,
     target_system |-> 1,
     target_component |-> 1,
     source_system |-> 1,
     source_component |-> 1,
     from_external |-> TRUE]

\* publish_vehicle_command's default arguments param1 = 0.0, param2 = 0.0.
DefaultParam == 0

\* Variant: arm() passes 0.0, as disarm() does.
arm_zero == VehicleCommandMsg(VEHICLE_CMD_COMPONENT_ARM_DISARM, 0, DefaultParam)

\* arm(): the command it publishes.
arm == VehicleCommandMsg(VEHICLE_CMD_COMPONENT_ARM_DISARM, 1, DefaultParam)

\* disarm(): the command it publishes.  Nothing in the node calls it.
disarm == VehicleCommandMsg(VEHICLE_CMD_COMPONENT_ARM_DISARM, 0, DefaultParam)

\* Variant: velocity control is declared once the node streams (counter 11).
OffboardControlModeMsg_velocity ==
    [type |-> "OffboardControlMode",
     timestamp |-> timestamp_,
     position |-> TRUE,
     velocity |-> offboard_setpoint_counter_ = 11,
     acceleration |-> FALSE,
     attitude |-> FALSE,
     body_rate |-> FALSE]

\* publish_offboard_control_mode(): the message it builds.
OffboardControlModeMsg ==
    [type |-> "OffboardControlMode",
     timestamp |-> timestamp_,
     position |-> TRUE,
     velocity |-> FALSE,
     acceleration |-> FALSE,
     attitude |-> FALSE,
     body_rate |-> FALSE]

\* The position and yaw of a TrajectorySetpoint.
Payload(m) == [x |-> m.x, y |-> m.y, z |-> m.z, yaw |-> m.yaw]

(* ------------------------------ executor ------------------------------ *)

\* Variant: a multi-threaded executor, which runs subscription callbacks
\* while the timer callback is running.
ExecutorFree_multithreaded == TRUE

\* rclcpp::spin(node) runs the callbacks on one thread: a callback starts
\* only when no other callback is running.
ExecutorFree == pc = "idle"

(* ---------------------------- constructor ----------------------------- *)

\* timestamp_ has no initialiser: std::atomic<uint64_t>'s default constructor
\* leaves the value indeterminate, so any value may be read.
Init ==
    /\ timestamp_ \in TimeVals
    /\ offboard_setpoint_counter_ = 0
    /\ next_trajectory_setpoint_msg =
           [type |-> "TrajectorySetpoint",
            timestamp |-> timestamp_,
            x |-> Float32Of(0),
            y |-> Float32Of(0),
            z |-> Float32Of(-One),
            yaw |-> Float32Of(YawLiteral)]
    /\ pc = "idle"
    /\ msg = ZeroTrajectorySetpoint
    /\ tick_out = << >>
    /\ cmds = << >>
    /\ n_ocm = 0
    /\ n_traj = 0
    /\ ticks = 0
    /\ synced = FALSE
    /\ last_sync = 0
    /\ last_pose = NoPose
    /\ prev_setpoint = Payload(next_trajectory_setpoint_msg)

(* ------------------------- Timesync callback -------------------------- *)

\* Variant: the callback keeps the larger of the stored and the new value.
TimesyncStore_max(old, new) == IF new > old THEN new ELSE old

\* The value the Timesync callback stores.
TimesyncStore(old, new) == new

\* Variant: the callback also restamps the stored setpoint.
TimesyncCallback_restamp ==
    /\ ExecutorFree
    /\ \E t \in TimeVals :
          /\ timestamp_' = TimesyncStore(timestamp_, t)
          /\ next_trajectory_setpoint_msg' =
                 [next_trajectory_setpoint_msg EXCEPT !.timestamp = t]
          /\ synced' = TRUE
          /\ last_sync' = t
    /\ UNCHANGED << offboard_setpoint_counter_, pc, msg,
                    tick_out, cmds, n_ocm, n_traj, ticks, last_pose, prev_setpoint >>

TimesyncCallback ==
    /\ ExecutorFree
    /\ \E t \in TimeVals :
          /\ timestamp_' = TimesyncStore(timestamp_, t)
          /\ synced' = TRUE
          /\ last_sync' = t
    /\ UNCHANGED << offboard_setpoint_counter_, next_trajectory_setpoint_msg, pc, msg,
                    tick_out, cmds, n_ocm, n_traj, ticks, last_pose, prev_setpoint >>

(* ------------------------ update_target_setpoint_cb ------------------- *)

\* Variant: the vertical axis is passed through without the sign flip.
TargetSetpointOf_noflip(p, now) ==
    [type |-> "TrajectorySetpoint",
     timestamp |-> now,
     x |-> Float32Of(p.x),
     y |-> Float32Of(p.y),
     z |-> Float32Of(p.z),
     yaw |-> Float32Of(YawLiteral)]

\* The setpoint update_target_setpoint_cb stores for pose position p.
TargetSetpointOf(p, now) ==
    [type |-> "TrajectorySetpoint",
     timestamp |-> now,
     x |-> Float32Of(p.x),
     y |-> Float32Of(p.y),
     z |-> Float32Of(-p.z),
     yaw |-> Float32Of(YawLiteral)]

\* Variant: y is not written and keeps the value of the earlier setpoint.
update_target_setpoint_cb_merge ==
    /\ ExecutorFree
    /\ \E p \in Poses :
          /\ next_trajectory_setpoint_msg' =
                 [TargetSetpointOf(p, timestamp_) EXCEPT !.y = next_trajectory_setpoint_msg.y]
          /\ last_pose' = p
    /\ prev_setpoint' = Payload(next_trajectory_setpoint_msg)
    /\ UNCHANGED << timestamp_, offboard_setpoint_counter_, pc, msg, tick_out, cmds,
                    n_ocm, n_traj, ticks, synced, last_sync >>

\* Variant: only the first pose is stored, later ones are dropped.
update_target_setpoint_cb_first ==
    /\ ExecutorFree
    /\ \E p \in Poses :
          /\ next_trajectory_setpoint_msg' =
                 IF last_pose = NoPose THEN TargetSetpointOf(p, timestamp_)
                 ELSE next_trajectory_setpoint_msg
          /\ last_pose' = p
    /\ prev_setpoint' = Payload(next_trajectory_setpoint_msg)
    /\ UNCHANGED << timestamp_, offboard_setpoint_counter_, pc, msg, tick_out, cmds,
                    n_ocm, n_traj, ticks, synced, last_sync >>

update_target_setpoint_cb ==
    /\ ExecutorFree
    /\ \E p \in Poses :
          /\ next_trajectory_setpoint_msg' = TargetSetpointOf(p, timestamp_)
          /\ last_pose' = p
    /\ prev_setpoint' = Payload(next_trajectory_setpoint_msg)
    /\ UNCHANGED << timestamp_, offboard_setpoint_counter_, pc, msg, tick_out, cmds,
                    n_ocm, n_traj, ticks, synced, last_sync >>

(* --------------------------- timer_callback --------------------------- *)

\* Variants of the transition test: one tick early, and on every tick from 10.
TransitionDue_early(c) == c = 9

TransitionDue_from(c) == c >= 10

\* Variant of the transition test: a threshold the counter never reaches.
TransitionDue_never(c) == c = 12

\* if (offboard_setpoint_counter_ == 10)
TransitionDue(c) == c = 10

\* Variant of the saturation test: the counter never stops.
CounterRunning_unbounded(c) == TRUE

\* if (offboard_setpoint_counter_ < 11)
CounterRunning(c) == c < 11

\* Variant: the vehicle is armed before the mode change is requested.
TransitionCommands_armfirst ==
    IF TransitionDue(offboard_setpoint_counter_)
    THEN << arm, VehicleCommandMsg(VEHICLE_CMD_DO_SET_MODE, 1, 6) >>
    ELSE << >>

\* Variant: the transition calls disarm() in place of arm().
TransitionCommands_disarm ==
    IF TransitionDue(offboard_setpoint_counter_)
    THEN << VehicleCommandMsg(VEHICLE_CMD_DO_SET_MODE, 1, 6), disarm >>
    ELSE << >>

\* The commands the callback publishes first: mode change, then arm.
TransitionCommands ==
    IF TransitionDue(offboard_setpoint_counter_)
    THEN << VehicleCommandMsg(VEHICLE_CMD_DO_SET_MODE, 1, 6), arm >>
    ELSE << >>

\* The timer fires: lines 111-117.
TimerStart ==
    /\ ExecutorFree
    /\ pc = "idle"
    /\ ticks < MaxTicks
    /\ tick_out' = TransitionCommands
    /\ cmds' = cmds \o TransitionCommands
    /\ pc' = "ocm"
    /\ UNCHANGED << timestamp_, offboard_setpoint_counter_, next_trajectory_setpoint_msg,
                    msg, n_ocm, n_traj, ticks, synced, last_sync, last_pose,
                    prev_setpoint >>

\* Variant: the pair is in the else branch of the transition test, so the
\* transition tick publishes no OffboardControlMode.
PublishOffboardControlMode_else ==
    /\ pc = "ocm"
    /\ tick_out' = IF TransitionDue(offboard_setpoint_counter_)
                   THEN tick_out ELSE Append(tick_out, OffboardControlModeMsg)
    /\ n_ocm' = IF TransitionDue(offboard_setpoint_counter_) THEN n_ocm ELSE n_ocm + 1
    /\ msg' = ZeroTrajectorySetpoint
    /\ pc' = "traj_timestamp"
    /\ UNCHANGED << timestamp_, offboard_setpoint_counter_, next_trajectory_setpoint_msg,
                    cmds, n_traj, ticks, synced, last_sync, last_pose, prev_setpoint >>

\* publish_offboard_control_mode(), then entry of publish_trajectory_setpoint().
PublishOffboardControlMode ==
    /\ pc = "ocm"
    /\ tick_out' = Append(tick_out, OffboardControlModeMsg)
    /\ n_ocm' = n_ocm + 1
    /\ msg' = ZeroTrajectorySetpoint
    /\ pc' = "traj_timestamp"
    /\ UNCHANGED << timestamp_, offboard_setpoint_counter_, next_trajectory_setpoint_msg,
                    cmds, n_traj, ticks, synced, last_sync, last_pose, prev_setpoint >>

\* publish_trajectory_setpoint(): its assignments, one per step.
TrajFields == << "timestamp", "x", "y", "z", "yaw" >>

TrajPc(i) == "traj_" \o TrajFields[i]

\* Variant: the whole stored message is copied, its timestamp included.
TrajSource_stored(f) == next_trajectory_setpoint_msg[f]

\* Variant: yaw is not copied and keeps the zero of msg{}.
TrajSource_noyaw(f) ==
    IF f = "timestamp" THEN timestamp_
    ELSE IF f = "yaw" THEN msg.yaw
    ELSE next_trajectory_setpoint_msg[f]

\* The value publish_trajectory_setpoint() writes to field f of msg.
TrajSource(f) ==
    IF f = "timestamp" THEN timestamp_ ELSE next_trajectory_setpoint_msg[f]

TrajectoryCopyField ==
    /\ \E i \in 1 .. Len(TrajFields) :
          /\ pc = TrajPc(i)
          /\ msg' = [msg EXCEPT ![TrajFields[i]] = TrajSource(TrajFields[i])]
          /\ pc' = IF i < Len(TrajFields) THEN TrajPc(i + 1) ELSE "traj_publish"
    /\ UNCHANGED << timestamp_, offboard_setpoint_counter_, next_trajectory_setpoint_msg,
                    tick_out, cmds, n_ocm, n_traj, ticks, synced, last_sync, last_pose,
                    prev_setpoint >>

\* trajectory_setpoint_publisher_->publish(msg)
PublishTrajectorySetpoint ==
    /\ pc = "traj_publish"
    /\ tick_out' = Append(tick_out, msg)
    /\ n_traj' = n_traj + 1
    /\ pc' = "count"
    /\ UNCHANGED << timestamp_, offboard_setpoint_counter_, next_trajectory_setpoint_msg,
                    msg, cmds, n_ocm, ticks, synced, last_sync, last_pose, prev_setpoint >>

\* Lines 124-127, and the callback returns.  The counter is a uint64_t; at
\* most MaxTicks increments happen, so it cannot wrap.
TimerCount ==
    /\ pc = "count"
    /\ offboard_setpoint_counter_' =
           IF CounterRunning(offboard_setpoint_counter_)
           THEN offboard_setpoint_counter_ + 1
           ELSE offboard_setpoint_counter_
    /\ ticks' = ticks + 1
    /\ pc' = "idle"
    /\ UNCHANGED << timestamp_, next_trajectory_setpoint_msg, msg, tick_out, cmds,
                    n_ocm, n_traj, synced, last_sync, last_pose, prev_setpoint >>

(* --------------------------- specification ---------------------------- *)

Next ==
    \/ TimesyncCallback
    \/ update_target_setpoint_cb
    \/ TimerStart
    \/ PublishOffboardControlMode
    \/ TrajectoryCopyField
    \/ PublishTrajectorySetpoint
    \/ TimerCount

Spec == Init /\ [][Next]_vars

\* The steps of the timer callback.
timer_callback ==
    \/ TimerStart
    \/ PublishOffboardControlMode
    \/ TrajectoryCopyField
    \/ PublishTrajectorySetpoint
    \/ TimerCount

\* create_wall_timer(33ms, timer_callback): the timer keeps firing and the
\* executor runs a callback that is ready, and a running callback returns.
FairSpec == Spec /\ WF_vars(timer_callback)

(* ------------------- arm() and disarm() on demand -------------------- *)

\* A caller of the public arm(): one VehicleCommand is published.
ArmCall ==
    /\ Len(cmds) < MaxCalls
    /\ cmds' = Append(cmds, arm)
    /\ UNCHANGED << timestamp_, offboard_setpoint_counter_, next_trajectory_setpoint_msg,
                    pc, msg, tick_out, n_ocm, n_traj, ticks, synced, last_sync,
                    last_pose, prev_setpoint >>

\* A caller of the public disarm(): one VehicleCommand is published.
DisarmCall ==
    /\ Len(cmds) < MaxCalls
    /\ cmds' = Append(cmds, disarm)
    /\ UNCHANGED << timestamp_, offboard_setpoint_counter_, next_trajectory_setpoint_msg,
                    pc, msg, tick_out, n_ocm, n_traj, ticks, synced, last_sync,
                    last_pose, prev_setpoint >>

\* The command emitter alone: Timesync messages and calls of arm(), disarm().
EmitterNext ==
    \/ TimesyncCallback
    \/ ArmCall
    \/ DisarmCall

EmitterSpec == Init /\ [][EmitterNext]_vars

(* ------------------------------- claims ------------------------------- *)

\* Messages of one type in a sequence of published messages.
OfType(seq, type) == { i \in DOMAIN seq : seq[i].type = type }

Min(a, b) == IF a < b THEN a ELSE b

\* The executor is inside the timer callback.
InTick == pc # "idle"

\* Number of the tick that is running, or that runs next (from 0).
TickNo == ticks

\* C1: during the first ten ticks (ticks 0..9, up to the start of tick 10) no
\* VehicleCommand has been published, whatever Timesync and pose callbacks ran.
C1_NoCommandInWarmup ==
    (TickNo < 10 \/ (TickNo = 10 /\ ~InTick)) =>
        /\ cmds = << >>
        /\ OfType(tick_out, "VehicleCommand") = {}

C1_Witness ==
    /\ TickNo = 10 /\ ~InTick
    /\ synced /\ last_pose # NoPose
    /\ cmds = << >>
    /\ n_traj = 10

\* m is a mode change command; m is an arm command.
IsModeChange(m) ==
    /\ m.type = "VehicleCommand"
    /\ m.command = VEHICLE_CMD_DO_SET_MODE

IsArm(m) ==
    /\ m.type = "VehicleCommand"
    /\ m.command = VEHICLE_CMD_COMPONENT_ARM_DISARM
    /\ m.param1 = 1

\* C2: the tick that starts with counter 10 publishes the mode change command
\* and then the arm command, before anything else; no other tick publishes a
\* VehicleCommand, so from that tick on exactly these two have been published.
C2_TransitionOnce ==
    /\ Len(cmds) \in {0, 2}
    /\ (TickNo > 10 \/ (TickNo = 10 /\ InTick)) =>
          /\ Len(cmds) = 2
          /\ IsModeChange(cmds[1])
          /\ IsArm(cmds[2])
    /\ (offboard_setpoint_counter_ = 10 /\ InTick) =>
          /\ Len(tick_out) >= 2
          /\ IsModeChange(tick_out[1])
          /\ IsArm(tick_out[2])
          /\ OfType(tick_out, "VehicleCommand") = {1, 2}
    /\ (offboard_setpoint_counter_ # 10 /\ InTick) =>
          OfType(tick_out, "VehicleCommand") = {}

C2_Witness ==
    /\ TickNo >= 12 /\ InTick
    /\ Len(cmds) = 2
    /\ IsModeChange(cmds[1])
    /\ IsArm(cmds[2])

\* C3: every tick publishes exactly one OffboardControlMode and exactly one
\* TrajectorySetpoint: after n completed ticks n of each have been published,
\* and the messages of a completed tick hold one of each.
C3_OnePairPerTick ==
    /\ n_ocm \in {ticks, ticks + 1}
    /\ n_traj \in {ticks, ticks + 1}
    /\ ~InTick =>
          /\ n_ocm = ticks
          /\ n_traj = ticks
          /\ ticks > 0 =>
                /\ Cardinality(OfType(tick_out, "OffboardControlMode")) = 1
                /\ Cardinality(OfType(tick_out, "TrajectorySetpoint")) = 1

C3_Witness ==
    /\ ~InTick
    /\ ticks = 11
    /\ Len(tick_out) = 4
    /\ n_ocm = 11 /\ n_traj = 11

\* C4: the counter is min(n, 11) after n ticks, so it stays in 0..11.
C4_CounterSaturates ==
    /\ offboard_setpoint_counter_ \in 0 .. 11
    /\ offboard_setpoint_counter_ = Min(ticks, 11)

C4_Witness ==
    /\ ticks = 13
    /\ offboard_setpoint_counter_ = 11

\* Messages published so far, and the messages the current step publishes.
Published == Len(cmds) + n_ocm + n_traj

NewMessages ==
    SubSeq(tick_out', Len(tick_out') - (Published' - Published) + 1, Len(tick_out'))

\* C5: a published TrajectorySetpoint is never torn: its (x, y, z, yaw) is the
\* complete stored setpoint as it is now or as it was before the last pose
\* update, never fields of both.
C5_NoTornSetpoint ==
    [][n_traj' = n_traj + 1 =>
          Payload(tick_out'[Len(tick_out')]) \in
              { prev_setpoint, Payload(next_trajectory_setpoint_msg) }]_vars

C5_Witness ==
    /\ pc = "count"
    /\ ticks > 0
    /\ last_pose # NoPose
    /\ prev_setpoint # Payload(next_trajectory_setpoint_msg)
    /\ prev_setpoint.x # next_trajectory_setpoint_msg.x
    /\ prev_setpoint.z # next_trajectory_setpoint_msg.z
    /\ Payload(tick_out[Len(tick_out)]) = Payload(next_trajectory_setpoint_msg)

\* C6: every message published before the first Timesync message carries
\* timestamp 0.
C6_ZeroBeforeSync ==
    ~synced =>
        /\ \A i \in DOMAIN tick_out : tick_out[i].timestamp = 0
        /\ \A i \in DOMAIN cmds : cmds[i].timestamp = 0

\* C7: once a Timesync message has been processed, every message is published
\* with the timestamp of the last Timesync processed; a TrajectorySetpoint
\* carries it even when the stored setpoint carries another timestamp.
C7_StampedWithLastSync ==
    [][synced =>
          \A i \in DOMAIN NewMessages : NewMessages[i].timestamp = last_sync]_vars

C7_Witness ==
    /\ pc = "count"
    /\ synced
    /\ tick_out[Len(tick_out)].type = "TrajectorySetpoint"
    /\ tick_out[Len(tick_out)].timestamp = last_sync
    /\ next_trajectory_setpoint_msg.timestamp # last_sync
    /\ Len(cmds) = 2

\* C8 as stated: the stored timestamp never goes down (from the first
\* Timesync message on, whatever the value before it).
C8_NeverDecreases == [][synced => timestamp_' >= timestamp_]_vars

\* C8 amended: the stored timestamp is the timestamp of the last Timesync
\* processed, whether that is above or below the value stored before.
C8_LastSyncStored == synced => timestamp_ = last_sync

\* The transition commands were stamped 0, the last tick's messages 2, and a
\* later Timesync message has brought the stored timestamp down to 1.
C8_Witness ==
    /\ synced
    /\ ~InTick
    /\ Len(cmds) = 2 /\ cmds[1].timestamp = 0
    /\ ticks >= 12
    /\ tick_out[Len(tick_out)].timestamp = 2
    /\ timestamp_ = 1 /\ last_sync = 1

\* C9 as stated: x and y of the stored setpoint are those of the pose, z is
\* the negated z, yaw is the constant of the startup pose.
C9_PassThrough ==
    last_pose # NoPose =>
        /\ next_trajectory_setpoint_msg.x = last_pose.x
        /\ next_trajectory_setpoint_msg.y = last_pose.y
        /\ next_trajectory_setpoint_msg.z = -last_pose.z
        /\ next_trajectory_setpoint_msg.yaw = Float32Of(YawLiteral)

\* v is a float32 value.
IsFloat32(v) == v % F32Grain = 0

\* C9 amended: x and y are those of the pose rounded to float32, z is the
\* negation of the pose's z rounded to float32 (each unchanged when the
\* coordinate is a float32 value), yaw is the constant of the startup pose.
C9_NarrowedAndFlipped ==
    last_pose # NoPose =>
        /\ next_trajectory_setpoint_msg.x = Float32Of(last_pose.x)
        /\ next_trajectory_setpoint_msg.y = Float32Of(last_pose.y)
        /\ next_trajectory_setpoint_msg.z = -Float32Of(last_pose.z)
        /\ IsFloat32(last_pose.x) => next_trajectory_setpoint_msg.x = last_pose.x
        /\ IsFloat32(last_pose.y) => next_trajectory_setpoint_msg.y = last_pose.y
        /\ IsFloat32(last_pose.z) => next_trajectory_setpoint_msg.z = -last_pose.z
        /\ next_trajectory_setpoint_msg.yaw = Float32Of(YawLiteral)

\* The pose (2, -3, 5) has been stored as (2, -3, -5).
C9_Witness ==
    /\ last_pose = [x |-> 2 * One, y |-> -(3 * One), z |-> 5 * One]
    /\ Payload(next_trajectory_setpoint_msg) =
           [x |-> 2 * One, y |-> -(3 * One), z |-> -(5 * One),
            yaw |-> Float32Of(YawLiteral)]

\* Pi to the resolution of the model: 3.142.
Pi == (3 * One) + 142

\* The TrajectorySetpoint messages among the messages of the tick.
TickSetpoints == { tick_out[i] : i \in OfType(tick_out, "TrajectorySetpoint") }

TickModes == { tick_out[i] : i \in OfType(tick_out, "OffboardControlMode") }

\* C11: every OffboardControlMode published has position true and velocity,
\* acceleration, attitude, body_rate false, in every state of the counter,
\* whatever setpoint is stored and whatever events were received.
C11_PositionOnly ==
    \A m \in TickModes :
        /\ m.position = TRUE
        /\ m.velocity = FALSE
        /\ m.acceleration = FALSE
        /\ m.attitude = FALSE
        /\ m.body_rate = FALSE

C11_Witness ==
    /\ ~InTick
    /\ ticks = 12
    /\ offboard_setpoint_counter_ = 11
    /\ synced /\ last_pose # NoPose
    /\ TickModes # {}
    /\ \A m \in TickModes : m.position /\ ~m.velocity

\* The VehicleCommand of the arm/disarm family with param1 = p1 stamped now.
ArmDisarmCommand(p1) ==
    [type |-> "VehicleCommand",
     timestamp |-> timestamp_,
     param1 |-> p1,
     param2 |-> 0,
     command |-> 400,
     target_system |-> 1,
     target_component |-> 1,
     source_system |-> 1,
     source_component |-> 1,
     from_external |-> TRUE]

\* C12: a call of arm() publishes exactly one VehicleCommand, of the arm/disarm
\* family with param1 = 1, and a call of disarm() exactly one with param1 = 0;
\* each has param2 = 0, the four system and component ids 1, from_external
\* true and the stored timestamp of the moment of the call.
C12_ArmDisarm ==
    [][/\ ArmCall => cmds' = Append(cmds, ArmDisarmCommand(1))
       /\ DisarmCall => cmds' = Append(cmds, ArmDisarmCommand(0))
       /\ Len(cmds') \in {Len(cmds), Len(cmds) + 1}]_vars

C12_Witness ==
    /\ Len(cmds) = 3
    /\ cmds[1].param1 = 1 /\ cmds[1].timestamp = 2
    /\ cmds[2].param1 = 0 /\ cmds[2].timestamp = 1
    /\ cmds[3].param1 = 1 /\ cmds[3].timestamp = 0
    /\ \A i \in 1 .. 3 : cmds[i].command = 400 /\ cmds[i].param2 = 0

\* The position and yaw a full replace by pose p leaves in the store.
Replaced(p) ==
    [x |-> Float32Of(p.x), y |-> Float32Of(p.y), z |-> -Float32Of(p.z),
     yaw |-> Float32Of(YawLiteral)]

\* C13: a pose callback replaces the stored x, y, z, yaw by values of its pose
\* alone, and when it ingests the pose ingested last, with the stored
\* timestamp still the current one, the stored setpoint stays as it is.
C13_FullReplaceIdempotent ==
    [][update_target_setpoint_cb =>
          /\ Payload(next_trajectory_setpoint_msg') = Replaced(last_pose')
          /\ (last_pose' = last_pose /\ next_trajectory_setpoint_msg.timestamp = timestamp_)
                => next_trajectory_setpoint_msg' = next_trajectory_setpoint_msg]_vars

\* The last pose callback ingested the pose of the one before it, with no
\* change of the stored timestamp in between, after a tick.
C13_Witness ==
    /\ last_pose # NoPose
    /\ prev_setpoint = Payload(next_trajectory_setpoint_msg)
    /\ next_trajectory_setpoint_msg.timestamp = timestamp_
    /\ Payload(next_trajectory_setpoint_msg) = Replaced(last_pose)
    /\ ticks > 0

\* C14: when the mode change command is published, exactly ten
\* OffboardControlMode and ten TrajectorySetpoint messages have been published.
C14_TenPairsBeforeModeChange ==
    [][Len(cmds') > Len(cmds) => (n_ocm = 10 /\ n_traj = 10 /\ ticks = 10)]_vars

C14_Witness ==
    /\ pc = "ocm"
    /\ Len(cmds) = 2 /\ Len(tick_out) = 2
    /\ IsModeChange(tick_out[1])
    /\ n_ocm = 10 /\ n_traj = 10

\* What kind of message m is.
Kind(m) ==
    IF m.type = "VehicleCommand"
    THEN (IF m.command = 176 THEN "mode" ELSE IF m.param1 = 1 THEN "arm" ELSE "disarm")
    ELSE m.type

Kinds(seq) == [i \in DOMAIN seq |-> Kind(seq[i])]

\* The publications of tick number n, in order.
TickOrder(n) ==
    IF n = 10
    THEN << "mode", "arm", "OffboardControlMode", "TrajectorySetpoint" >>
    ELSE << "OffboardControlMode", "TrajectorySetpoint" >>

IsPrefix(a, b) == Len(a) <= Len(b) /\ a = SubSeq(b, 1, Len(a))

\* C15: the publications of a tick come in the order mode change, arm,
\* OffboardControlMode, TrajectorySetpoint on the transition tick and
\* OffboardControlMode, TrajectorySetpoint on the others; the counter changes
\* only when the tick has made all its publications.
C15_OrderWithinTick ==
    /\ [](InTick => IsPrefix(Kinds(tick_out), TickOrder(ticks)))
    /\ []((~InTick /\ ticks > 0) => Kinds(tick_out) = TickOrder(ticks - 1))
    /\ [][offboard_setpoint_counter_' # offboard_setpoint_counter_ =>
             (Kinds(tick_out) = TickOrder(ticks) /\ tick_out' = tick_out)]_vars

C15_Witness ==
    /\ ticks = 11 /\ ~InTick
    /\ offboard_setpoint_counter_ = 11
    /\ Kinds(tick_out) = << "mode", "arm", "OffboardControlMode", "TrajectorySetpoint" >>

\* The setpoint the constructor stores.
StartupSetpoint == [x |-> 0, y |-> 0, z |-> -One, yaw |-> Float32Of(YawLiteral)]

\* C16: the TrajectorySetpoint a tick publishes carries the converted position
\* of the last pose processed, or the startup pose when none was processed.
C16_LastPoseWins ==
    [][n_traj' = n_traj + 1 =>
          Payload(tick_out'[Len(tick_out')]) =
              IF last_pose = NoPose THEN StartupSetpoint ELSE Replaced(last_pose)]_vars

\* The first tick publishes the second of two poses received before it; the
\* first of the two was overwritten and not published.
C16_Witness ==
    /\ pc = "count" /\ ticks = 0
    /\ last_pose # NoPose
    /\ prev_setpoint # StartupSetpoint
    /\ prev_setpoint # Payload(next_trajectory_setpoint_msg)
    /\ Payload(tick_out[Len(tick_out)]) = Replaced(last_pose)

\* C17: the stored setpoint changes only in a pose callback, which leaves the
\* counter and the stored timestamp as they are and publishes nothing; a
\* change of the stored timestamp (a Timesync callback) leaves the stored
\* setpoint, its timestamp included, and the counter as they are and publishes
\* nothing; a step of the timer callback changes neither the stored setpoint
\* nor the stored timestamp.
C17_Frames ==
    [][/\ next_trajectory_setpoint_msg' # next_trajectory_setpoint_msg =>
             /\ last_pose' \in Poses
             /\ pc' = pc /\ ~InTick
             /\ offboard_setpoint_counter_' = offboard_setpoint_counter_
             /\ timestamp_' = timestamp_
             /\ Published' = Published /\ tick_out' = tick_out
       /\ timestamp_' # timestamp_ =>
             /\ synced' /\ last_sync' = timestamp_'
             /\ next_trajectory_setpoint_msg' = next_trajectory_setpoint_msg
             /\ offboard_setpoint_counter_' = offboard_setpoint_counter_
             /\ Published' = Published /\ tick_out' = tick_out
       /\ (pc' # pc \/ Published' # Published
             \/ offboard_setpoint_counter_' # offboard_setpoint_counter_) =>
             /\ next_trajectory_setpoint_msg' = next_trajectory_setpoint_msg
             /\ timestamp_' = timestamp_
             /\ last_pose' = last_pose]_vars

\* After a pose stamped 0 a Timesync message has set the stored timestamp to
\* 2 and ticks have run: the stored setpoint still carries 0.
C17_Witness ==
    /\ last_pose # NoPose
    /\ synced /\ timestamp_ = 2
    /\ next_trajectory_setpoint_msg.timestamp = 0
    /\ ticks >= 11
    /\ Payload(next_trajectory_setpoint_msg) = Replaced(last_pose)

\* C18: when the timer keeps firing, the mode change and arm commands are
\* eventually published and the counter eventually is 11 and stays 11, with
\* the two commands published once; whatever Timesync and pose callbacks run,
\* this is the case as soon as eleven ticks have completed.
C18_EventuallyStreaming ==
    /\ <>(Len(cmds) = 2 /\ IsModeChange(cmds[1]) /\ IsArm(cmds[2]))
    /\ <>[](offboard_setpoint_counter_ = 11 /\ Len(cmds) = 2)
    /\ [](ticks >= 11 => (offboard_setpoint_counter_ = 11 /\ Len(cmds) = 2))
    /\ [][(offboard_setpoint_counter_ = 11 /\ ticks' = ticks + 1) =>
             (n_ocm' = ticks' /\ n_traj' = ticks')]_vars

C18_Witness ==
    /\ ticks = 13 /\ ~InTick
    /\ offboard_setpoint_counter_ = 11
    /\ Len(cmds) = 2
    /\ n_ocm = 13 /\ n_traj = 13
    /\ synced /\ last_pose # NoPose

\* C19: at most two VehicleCommands are ever published; a mode change command
\* is VEHICLE_CMD_DO_SET_MODE with param1 = 1 and param2 = 6, and no command
\* of the arm/disarm family with param1 = 0 is published.
C19_TwoCommandsNoDisarm ==
    /\ Len(cmds) <= 2
    /\ \A i \in DOMAIN cmds :
          /\ cmds[i].command \in {176, 400}
          /\ cmds[i].command = 176 => (cmds[i].param1 = 1 /\ cmds[i].param2 = 6)
          /\ cmds[i].command = 400 => cmds[i].param1 # 0

C19_Witness ==
    /\ ticks = 13
    /\ Len(cmds) = 2
    /\ cmds[1].command = 176 /\ cmds[1].param1 = 1 /\ cmds[1].param2 = 6
    /\ cmds[2].command = 400 /\ cmds[2].param1 = 1

\* C20: the messages a tick publishes all carry the same timestamp.
C20_OneTimestampPerTick ==
    \A i, j \in DOMAIN tick_out : tick_out[i].timestamp = tick_out[j].timestamp

\* The transition tick has published its four messages with timestamp 1,
\* between a Timesync message of 1 before it and one of 2 after it.
C20_Witness ==
    /\ ticks = 11 /\ ~InTick
    /\ Len(tick_out) = 4
    /\ \A i \in DOMAIN tick_out : tick_out[i].timestamp = 1
    /\ synced /\ timestamp_ = 2

====
